---- MODULE Spec2Model ----
(***************************************************************************)
(* Model of edge_computer/main.cpp: the capture driver (main), the two     *)
(* persistence tasks (save_frame_depth_data, save_frame_color_data) and    *)
(* the metadata writer (metadata_to_text).  The RealSense pipeline, the    *)
(* filter blocks and the file system are the environment.                  *)
(***************************************************************************)
EXTENDS Integers, Sequences, FiniteSets, TLC

\* Largest frame count given on the command line.
MaxFrames == 2

\* Number of metadata kinds of the SDK's enumeration (implementation-defined).
RS2_FRAME_METADATA_COUNT == 3

\* main.cpp:136, the frames waited for before capturing.
WarmupFrames == 30

VARIABLES
    pc,          \* position of the main thread
    argv,        \* the command-line arguments after the program name
    devices,     \* devices.size() as ctx.query_devices() reports it
    dirs,        \* the output directories that exist
    colourBase,  \* frame number of the colour stream before its first frame
    started,     \* pipe.start(cfg) has returned
    waits,       \* framesets the pipeline has returned so far
    num_frames,  \* main's num_frames
    raspi_name,  \* main's raspi_name
    i,           \* loop counter of the warm-up and capture loops
    threads,     \* main's vector of std::thread, with each task's progress
    joinIdx,     \* position of the joining range-for
    files,       \* the file system: path -> content
    cout,        \* lines written to the output stream
    cerr,        \* lines written to the error stream
    exit,        \* how the process ended, "running" while it has not
    thrown       \* the exception that left main's body, if any

vars == <<pc, argv, devices, dirs, colourBase, started, waits, num_frames,
          raspi_name, i, threads, joinIdx, files, cout, cerr, exit, thrown>>

-----------------------------------------------------------------------------
(* Text: decimal formatting and strtol *)

Digits == <<"0", "1", "2", "3", "4", "5", "6", "7", "8", "9">>

\* operator<< of an unsigned integer into a stream: its decimal digits.
RECURSIVE DecStr(_)
DecStr(n) ==
    IF n < 10 THEN Digits[n + 1]
    ELSE DecStr(n \div 10) \o Digits[(n % 10) + 1]

\* The characters of a decimal numeral, as argv holds them.
RECURSIVE DecChars(_)
DecChars(n) ==
    IF n < 10 THEN <<Digits[n + 1]>>
    ELSE DecChars(n \div 10) \o <<Digits[(n % 10) + 1]>>

IsDigit(c) == \E d \in 1..10 : Digits[d] = c

DigitVal(c) == (CHOOSE d \in 1..10 : Digits[d] = c) - 1

RECURSIVE SkipSpace(_, _)
SkipSpace(s, k) ==
    IF k <= Len(s) /\ s[k] = " " THEN SkipSpace(s, k + 1) ELSE k

RECURSIVE Accumulate(_, _, _)
Accumulate(s, k, acc) ==
    IF k <= Len(s) /\ IsDigit(s[k])
    THEN Accumulate(s, k + 1, acc * 10 + DigitVal(s[k]))
    ELSE acc

\* strtol(s, &output, 10): leading blanks, an optional sign, then the longest
\* run of digits; 0 when there is none.  The end pointer is never read.
strtol(s) ==
    LET k    == SkipSpace(s, 1)
        sign == k <= Len(s) /\ s[k] \in {"-", "+"}
        neg  == k <= Len(s) /\ s[k] = "-"
        v    == Accumulate(s, IF sign THEN k + 1 ELSE k, 0)
    IN  IF neg THEN 0 - v ELSE v

-----------------------------------------------------------------------------
(* The environment: the pipeline's frames and the SDK's name tables *)

\* rs2_stream_to_string
rs2_stream_to_string(stream) ==
    CASE stream = "RS2_STREAM_DEPTH" -> "Depth"
      [] stream = "RS2_STREAM_COLOR" -> "Color"

\* rs2_frame_metadata_to_string, for the first kinds of the enumeration.
MetadataNames ==
    <<"Frame Counter", "Frame Timestamp", "Sensor Timestamp",
      "Actual Exposure", "Gain Level", "Auto Exposure">>

rs2_frame_metadata_to_string(k) == MetadataNames[k + 1]

MetadataKinds == 0..(RS2_FRAME_METADATA_COUNT - 1)

\* The metadata a captured frame carries: the kinds it supports, with values.
SessionMetadata(n) ==
    [k \in {m \in MetadataKinds : (m + n) % 2 = 0} |-> n + k]

\* The frameset the k-th wait_for_frames returns: frame numbers grow by one
\* per frameset on each stream; dv and cv say whether the frame is a video
\* frame (what frame.as<rs2::video_frame>() yields).
Frameset(k, base, dv, cv) ==
    [depth |-> [stream |-> "RS2_STREAM_DEPTH", number |-> k, video |-> dv,
                set |-> k, filters |-> <<>>, md |-> SessionMetadata(k)],
     color |-> [stream |-> "RS2_STREAM_COLOR", number |-> base + k, video |-> cv,
                set |-> k, filters |-> <<>>, md |-> SessionMetadata(base + k)]]

\* A processing block applied to a frame: the frame keeps its number.
Process(block, frame) ==
    [frame EXCEPT !.filters = Append(@, block)]

-----------------------------------------------------------------------------
(* The file system *)

DepthDir == "depth/"
DepthMetadataDir == "depth_metadata/"
ColourDir == "colour/"
ColourMetadataDir == "colour_metadata/"

AllDirs == {DepthDir, DepthMetadataDir, ColourDir, ColourMetadataDir}

\* Opening a file for writing under dir: it is created (truncated) when the
\* directory exists; otherwise the stream fails and every write is dropped.
WriteFile(fs, ds, dir, path, content) ==
    IF dir \in ds THEN (path :> content) @@ fs ELSE fs

-----------------------------------------------------------------------------
(* metadata_to_text *)

supports_frame_metadata(frm, k) == k \in DOMAIN frm.md

get_frame_metadata(frm, k) == frm.md[k]

\* MetadataRows with the loop ending one kind early.
RECURSIVE MetadataRowsShort(_, _)
MetadataRowsShort(frm, k) ==
    IF k < RS2_FRAME_METADATA_COUNT - 1
    THEN (IF supports_frame_metadata(frm, k)
          THEN <<<<rs2_frame_metadata_to_string(k),
                   DecStr(get_frame_metadata(frm, k))>>>>
          ELSE <<>>) \o MetadataRowsShort(frm, k + 1)
    ELSE <<>>

\* The loop of metadata_to_text from kind k on: one row per supported kind.
RECURSIVE MetadataRows(_, _)
MetadataRows(frm, k) ==
    IF k < RS2_FRAME_METADATA_COUNT
    THEN (IF supports_frame_metadata(frm, k)
          THEN <<<<rs2_frame_metadata_to_string(k),
                   DecStr(get_frame_metadata(frm, k))>>>>
          ELSE <<>>) \o MetadataRows(frm, k + 1)
    ELSE <<>>

\* The text metadata_to_text writes, as rows of two comma-separated fields.
MetadataText(frm) ==
    <<<<"Stream", rs2_stream_to_string(frm.stream)>>,
      <<"Metadata Attribute", "Value">>>> \o MetadataRows(frm, 0)

metadata_to_text(fs, ds, frm, dir, file_name) ==
    WriteFile(fs, ds, dir, file_name, [format |-> "csv", rows |-> MetadataText(frm)])

-----------------------------------------------------------------------------
(* The persistence tasks *)

DepthPath(pi_name, n) ==
    DepthDir \o pi_name \o "_depth_" \o DecStr(n) \o ".raw"

DepthMetadataPath(pi_name, n) ==
    DepthMetadataDir \o pi_name \o "_depth_metadata_" \o DecStr(n) \o ".txt"

ColourPath(pi_name, n) ==
    ColourDir \o pi_name \o "_colour_" \o DecStr(n) \o ".png"

\* ColourMetadataPath with the depth task's name left in.
ColourMetadataPathCopied(pi_name, n) ==
    DepthMetadataDir \o pi_name \o "_depth_metadata_" \o DecStr(n) \o ".txt"

ColourMetadataPath(pi_name, n) ==
    ColourMetadataDir \o pi_name \o "_colour_metadata_" \o DecStr(n) \o ".txt"

\* The four processing blocks of save_frame_depth_data, in order.
FilterChain(frame) ==
    Process("disparity_to_depth",
        Process("spatial_filter",
            Process("depth_to_disparity",
                Process("decimation_filter", frame))))

\* A std::thread as the vector holds it, with the progress of its function.
Task(fn, pi_name, frame) ==
    [fn |-> fn, pi_name |-> pi_name, frame |-> frame, st |-> "ready",
     joined |-> FALSE, out |-> <<>>]

Created(ds, dir, path) == IF dir \in ds THEN <<path>> ELSE <<>>

Running(t) ==
    /\ exit = "running"
    /\ t \in 1..Len(threads)

\* SaveDepthWrite with a stream that raises on failure: a failed open ends
\* the task.
SaveDepthWriteThrows(t) ==
    /\ Running(t)
    /\ threads[t].fn = "save_frame_depth_data"
    /\ threads[t].st = "ready"
    /\ LET frame == FilterChain(threads[t].frame)
           path  == DepthPath(threads[t].pi_name, frame.number)
       IN  /\ files' = IF frame.video
                       THEN WriteFile(files, dirs, DepthDir, path,
                                [format |-> "raw", rows |-> <<frame>>])
                       ELSE files
           /\ threads' = [threads EXCEPT
                 ![t].frame = frame,
                 ![t].st = IF frame.video /\ DepthDir \in dirs THEN "saved" ELSE "done",
                 ![t].out = @ \o (IF frame.video THEN Created(dirs, DepthDir, path)
                                  ELSE <<>>)]
    /\ UNCHANGED <<pc, argv, devices, dirs, colourBase, started, waits, num_frames,
                   raspi_name, i, joinIdx, cout, cerr, exit, thrown>>

\* save_frame_depth_data up to the write of the raw file (lines 45-68).
SaveDepthWrite(t) ==
    /\ Running(t)
    /\ threads[t].fn = "save_frame_depth_data"
    /\ threads[t].st = "ready"
    /\ LET frame == FilterChain(threads[t].frame)
           path  == DepthPath(threads[t].pi_name, frame.number)
       IN  IF frame.video
           THEN /\ files' = WriteFile(files, dirs, DepthDir, path,
                                [format |-> "raw", rows |-> <<frame>>])
                /\ threads' = [threads EXCEPT ![t].frame = frame,
                                              ![t].st = "saved",
                                              ![t].out = @ \o Created(dirs, DepthDir, path)]
           ELSE /\ files' = files
                /\ threads' = [threads EXCEPT ![t].frame = frame, ![t].st = "done"]
    /\ UNCHANGED <<pc, argv, devices, dirs, colourBase, started, waits, num_frames,
                   raspi_name, i, joinIdx, cout, cerr, exit, thrown>>

\* save_frame_depth_data from the confirmation line on (lines 70-78).
SaveDepthMetadata(t) ==
    /\ Running(t)
    /\ threads[t].fn = "save_frame_depth_data"
    /\ threads[t].st = "saved"
    /\ LET frame == threads[t].frame
           path  == DepthMetadataPath(threads[t].pi_name, frame.number)
       IN  /\ cout' = cout \cup {"Saved " \o DepthPath(threads[t].pi_name, frame.number)}
           /\ files' = metadata_to_text(files, dirs, frame, DepthMetadataDir, path)
           /\ threads' = [threads EXCEPT ![t].st = "done",
                                         ![t].out = @ \o Created(dirs, DepthMetadataDir, path)]
    /\ UNCHANGED <<pc, argv, devices, dirs, colourBase, started, waits, num_frames,
                   raspi_name, i, joinIdx, cerr, exit, thrown>>

\* save_frame_color_data up to stbi_write_png (lines 86-94).
SaveColourWrite(t) ==
    /\ Running(t)
    /\ threads[t].fn = "save_frame_color_data"
    /\ threads[t].st = "ready"
    /\ LET frame == threads[t].frame
           path  == ColourPath(threads[t].pi_name, frame.number)
       IN  IF frame.video
           THEN /\ files' = WriteFile(files, dirs, ColourDir, path,
                                [format |-> "png", rows |-> <<frame>>])
                /\ threads' = [threads EXCEPT ![t].st = "saved",
                                              ![t].out = @ \o Created(dirs, ColourDir, path)]
           ELSE /\ files' = files
                /\ threads' = [threads EXCEPT ![t].st = "done"]
    /\ UNCHANGED <<pc, argv, devices, dirs, colourBase, started, waits, num_frames,
                   raspi_name, i, joinIdx, cout, cerr, exit, thrown>>

\* save_frame_color_data from the confirmation line on (lines 95-102).
SaveColourMetadata(t) ==
    /\ Running(t)
    /\ threads[t].fn = "save_frame_color_data"
    /\ threads[t].st = "saved"
    /\ LET frame == threads[t].frame
           path  == ColourMetadataPath(threads[t].pi_name, frame.number)
       IN  /\ cout' = cout \cup {"Saved " \o ColourPath(threads[t].pi_name, frame.number)}
           /\ files' = metadata_to_text(files, dirs, frame, ColourMetadataDir, path)
           /\ threads' = [threads EXCEPT ![t].st = "done",
                                         ![t].out = @ \o Created(dirs, ColourMetadataDir, path)]
    /\ UNCHANGED <<pc, argv, devices, dirs, colourBase, started, waits, num_frames,
                   raspi_name, i, joinIdx, cerr, exit, thrown>>

-----------------------------------------------------------------------------
(* main *)

NoError == [type |-> "none", failed_function |-> "", failed_args |-> "", what |-> ""]

\* The rs2::error a failed SDK call raises.
Rs2Error(fn, args) ==
    [type |-> "rs2::error", failed_function |-> fn, failed_args |-> args,
     what |-> "Frame didn't arrive within 15000"]

StdError(what) ==
    [type |-> "std::exception", failed_function |-> "", failed_args |-> "", what |-> what]

\* The line a catch handler of main prints (lines 158-167).
HandlerLine(e) ==
    IF e.type = "rs2::error"
    THEN <<"RealSense error calling ", e.failed_function, "(", e.failed_args,
           "):\n    ", e.what>>
    ELSE <<e.what>>

Joinable(th) == ~th.joined

\* Exception e leaves main's body while the vector holds ths (<<>> before it
\* is constructed).  The body's locals are destroyed before a handler of the
\* function-try-block runs; destroying a joinable std::thread calls
\* std::terminate, and no handler runs.
Throw(e, ths) ==
    /\ thrown' = e
    /\ threads' = ths
    /\ pc' = "exited"
    /\ IF \E t \in 1..Len(ths) : Joinable(ths[t])
       THEN /\ exit' = "SIGABRT"
            /\ cerr' = cerr
       ELSE /\ exit' = "EXIT_FAILURE"
            /\ cerr' = Append(cerr, HandlerLine(e))

\* QueryDevices without the check of devices.size().
QueryDevicesNoCheck ==
    /\ pc = "query" /\ exit = "running"
    /\ pc' = "start"
    /\ UNCHANGED <<argv, devices, dirs, colourBase, started, waits, num_frames,
                   raspi_name, i, threads, joinIdx, files, cout, cerr, exit, thrown>>

\* Lines 111-117.
QueryDevices ==
    /\ pc = "query" /\ exit = "running"
    /\ IF devices = 0
       THEN /\ cerr' = Append(cerr, <<"No RealSense devices found!">>)
            /\ exit' = "EXIT_FAILURE"
            /\ pc' = "exited"
       ELSE /\ pc' = "start"
            /\ UNCHANGED <<cerr, exit>>
    /\ UNCHANGED <<argv, devices, dirs, colourBase, started, waits, num_frames,
                   raspi_name, i, threads, joinIdx, files, cout, thrown>>

\* Lines 120-126, pipe.start(cfg) returning.
PipeStart ==
    /\ pc = "start" /\ exit = "running"
    /\ started' = TRUE
    /\ pc' = "args"
    /\ UNCHANGED <<argv, devices, dirs, colourBase, waits, num_frames, raspi_name,
                   i, threads, joinIdx, files, cout, cerr, exit, thrown>>

\* Line 126, pipe.start(cfg) raising.
PipeStartError ==
    /\ pc = "start" /\ exit = "running"
    /\ Throw(Rs2Error("rs2_pipeline_start_with_config", "pipe, config"), <<>>)
    /\ UNCHANGED <<argv, devices, dirs, colourBase, started, waits, num_frames,
                   raspi_name, i, joinIdx, files, cout>>

\* Lines 129-133.  argv[argc] is a null pointer: strtol of it is undefined
\* (the process is killed), and std::string of it is undefined (the library
\* raises std::logic_error, or the process is killed).
ParseArgs ==
    /\ pc = "args" /\ exit = "running"
    /\ \/ /\ Len(argv) = 0
          /\ exit' = "SIGSEGV"
          /\ pc' = "exited"
          /\ UNCHANGED <<num_frames, raspi_name, i, threads, cerr, thrown>>
       \/ /\ Len(argv) = 1
          /\ num_frames' = strtol(argv[1])
          /\ \/ /\ Throw(StdError("basic_string: construction from null is not valid"), <<>>)
             \/ /\ exit' = "SIGSEGV"
                /\ pc' = "exited"
                /\ UNCHANGED <<threads, cerr, thrown>>
          /\ UNCHANGED <<raspi_name, i>>
       \/ /\ Len(argv) >= 2
          /\ num_frames' = strtol(argv[1])
          /\ raspi_name' = argv[2]
          /\ i' = 0
          /\ pc' = "warmup"
          /\ UNCHANGED <<threads, cerr, exit, thrown>>
    /\ UNCHANGED <<argv, devices, dirs, colourBase, started, waits, joinIdx,
                   files, cout>>

\* Warmup with the loop running one pass too many.
WarmupOffByOne ==
    /\ pc = "warmup" /\ exit = "running"
    /\ IF i <= WarmupFrames
       THEN /\ waits' = waits + 1
            /\ i' = i + 1
            /\ UNCHANGED <<pc, threads>>
       ELSE /\ threads' = <<>>
            /\ i' = 0
            /\ pc' = "capture"
            /\ UNCHANGED waits
    /\ UNCHANGED <<argv, devices, dirs, colourBase, started, num_frames, raspi_name,
                   joinIdx, files, cout, cerr, exit, thrown>>

\* Line 136, one pass of the warm-up loop; line 139 when the loop ends.
Warmup ==
    /\ pc = "warmup" /\ exit = "running"
    /\ IF i < WarmupFrames
       THEN /\ waits' = waits + 1
            /\ i' = i + 1
            /\ UNCHANGED <<pc, threads>>
       ELSE /\ threads' = <<>>
            /\ i' = 0
            /\ pc' = "capture"
            /\ UNCHANGED waits
    /\ UNCHANGED <<argv, devices, dirs, colourBase, started, num_frames, raspi_name,
                   joinIdx, files, cout, cerr, exit, thrown>>

\* Line 136, wait_for_frames raising in the warm-up loop.
WarmupError ==
    /\ pc = "warmup" /\ exit = "running"
    /\ i < WarmupFrames
    /\ Throw(Rs2Error("rs2_pipeline_wait_for_frames", "pipe, timeout_ms"), <<>>)
    /\ UNCHANGED <<argv, devices, dirs, colourBase, started, waits, num_frames,
                   raspi_name, i, joinIdx, files, cout>>

\* Capture with the loop running one pass too many.
CaptureOffByOne ==
    /\ pc = "capture" /\ exit = "running"
    /\ IF i <= num_frames
       THEN \E dv \in BOOLEAN, cv \in BOOLEAN :
              LET data == Frameset(waits + 1, colourBase, dv, cv)
              IN  /\ waits' = waits + 1
                  /\ threads' = threads
                        \o <<Task("save_frame_depth_data", raspi_name, data.depth),
                             Task("save_frame_color_data", raspi_name, data.color)>>
                  /\ i' = i + 1
                  /\ UNCHANGED <<pc, joinIdx>>
       ELSE /\ pc' = "join"
            /\ joinIdx' = 1
            /\ UNCHANGED <<waits, threads, i>>
    /\ UNCHANGED <<argv, devices, dirs, colourBase, started, num_frames, raspi_name,
                   files, cout, cerr, exit, thrown>>

\* Capture waiting for the tasks of the earlier framesets before it goes on.
CaptureBlocking ==
    /\ pc = "capture" /\ exit = "running"
    /\ \A t \in 1..Len(threads) : threads[t].st = "done"
    /\ IF i < num_frames
       THEN \E dv \in BOOLEAN, cv \in BOOLEAN :
              LET data == Frameset(waits + 1, colourBase, dv, cv)
              IN  /\ waits' = waits + 1
                  /\ threads' = threads
                        \o <<Task("save_frame_depth_data", raspi_name, data.depth),
                             Task("save_frame_color_data", raspi_name, data.color)>>
                  /\ i' = i + 1
                  /\ UNCHANGED <<pc, joinIdx>>
       ELSE /\ pc' = "join"
            /\ joinIdx' = 1
            /\ UNCHANGED <<waits, threads, i>>
    /\ UNCHANGED <<argv, devices, dirs, colourBase, started, num_frames, raspi_name,
                   files, cout, cerr, exit, thrown>>

\* Lines 140-147, one pass of the capture loop; line 150 when the loop ends.
Capture ==
    /\ pc = "capture" /\ exit = "running"
    /\ IF i < num_frames
       THEN \E dv \in BOOLEAN, cv \in BOOLEAN :
              LET data == Frameset(waits + 1, colourBase, dv, cv)
              IN  /\ waits' = waits + 1
                  /\ threads' = threads
                        \o <<Task("save_frame_depth_data", raspi_name, data.depth),
                             Task("save_frame_color_data", raspi_name, data.color)>>
                  /\ i' = i + 1
                  /\ UNCHANGED <<pc, joinIdx>>
       ELSE /\ pc' = "join"
            /\ joinIdx' = 1
            /\ UNCHANGED <<waits, threads, i>>
    /\ UNCHANGED <<argv, devices, dirs, colourBase, started, num_frames, raspi_name,
                   files, cout, cerr, exit, thrown>>

\* Line 142, wait_for_frames raising in the capture loop.
CaptureWaitError ==
    /\ pc = "capture" /\ exit = "running"
    /\ i < num_frames
    /\ Throw(Rs2Error("rs2_pipeline_wait_for_frames", "pipe, timeout_ms"), threads)
    /\ UNCHANGED <<argv, devices, dirs, colourBase, started, waits, num_frames,
                   raspi_name, i, joinIdx, files, cout>>

\* Lines 150-156: join the next thread once its function has returned; return
\* EXIT_SUCCESS after the last one.
Join ==
    /\ pc = "join" /\ exit = "running"
    /\ IF joinIdx <= Len(threads)
       THEN /\ threads[joinIdx].st = "done"
            /\ threads' = [threads EXCEPT ![joinIdx].joined = TRUE]
            /\ joinIdx' = joinIdx + 1
            /\ UNCHANGED <<pc, exit>>
       ELSE /\ exit' = "EXIT_SUCCESS"
            /\ pc' = "exited"
            /\ UNCHANGED <<threads, joinIdx>>
    /\ UNCHANGED <<argv, devices, dirs, colourBase, started, waits, num_frames,
                   raspi_name, i, files, cout, cerr, thrown>>

-----------------------------------------------------------------------------
(* The runs *)

Label == "pi1"

\* argv[1] as given: the numerals up to MaxFrames, and malformed ones.
FrameArgs ==
    {DecChars(n) : n \in 0..MaxFrames}
        \cup {<<"a", "b", "c">>, <<"1", "x">>, <<"-", "1">>, <<>>}

Argvs ==
    {<<>>} \cup {<<a>> : a \in FrameArgs} \cup {<<a, Label>> : a \in FrameArgs}

DirChoices == {AllDirs, AllDirs \ {DepthDir}, AllDirs \ {ColourMetadataDir}}

Init ==
    /\ pc = "query"
    /\ argv \in Argvs
    /\ devices \in {0, 1}
    /\ dirs \in DirChoices
    /\ colourBase \in {0, 1}
    /\ started = FALSE
    /\ waits = 0
    /\ num_frames = 0
    /\ raspi_name = ""
    /\ i = 0
    /\ threads = <<>>
    /\ joinIdx = 0
    /\ files = <<>>
    /\ cout = {}
    /\ cerr = <<>>
    /\ exit = "running"
    /\ thrown = NoError

Next ==
    \/ QueryDevices
    \/ PipeStart
    \/ PipeStartError
    \/ ParseArgs
    \/ Warmup
    \/ WarmupError
    \/ Capture
    \/ CaptureWaitError
    \/ Join
    \/ \E t \in 1..Len(threads) : SaveDepthWrite(t)
    \/ \E t \in 1..Len(threads) : SaveDepthMetadata(t)
    \/ \E t \in 1..Len(threads) : SaveColourWrite(t)
    \/ \E t \in 1..Len(threads) : SaveColourMetadata(t)

Spec == Init /\ [][Next]_vars

-----------------------------------------------------------------------------
(* metadata_to_text on every supported subset: the two tasks of one captured *)
(* frameset, each about to print its confirmation line and write its        *)
(* metadata file, over every set of supported kinds.                        *)

MetadataSets == UNION {[S -> {0, 12}] : S \in SUBSET MetadataKinds}

MetaTasks(ds, dm, cm) ==
    LET data == Frameset(WarmupFrames + 1, 0, TRUE, TRUE)
        d    == FilterChain([data.depth EXCEPT !.md = dm])
        c    == [data.color EXCEPT !.md = cm]
    IN  <<[Task("save_frame_depth_data", Label, d) EXCEPT
               !.st = "saved",
               !.out = Created(ds, DepthDir, DepthPath(Label, d.number))],
          [Task("save_frame_color_data", Label, c) EXCEPT
               !.st = "saved",
               !.out = Created(ds, ColourDir, ColourPath(Label, c.number))]>>

MetaFiles(ds, ths) ==
    WriteFile(
        WriteFile(<<>>, ds, DepthDir, DepthPath(Label, ths[1].frame.number),
                  [format |-> "raw", rows |-> <<ths[1].frame>>]),
        ds, ColourDir, ColourPath(Label, ths[2].frame.number),
        [format |-> "png", rows |-> <<ths[2].frame>>])

MetaInit ==
    /\ pc = "capture"
    /\ argv = <<DecChars(1), Label>>
    /\ devices = 1
    /\ dirs \in DirChoices
    /\ colourBase = 0
    /\ started = TRUE
    /\ waits = WarmupFrames + 1
    /\ num_frames = 1
    /\ raspi_name = Label
    /\ i = 1
    /\ \E dm \in MetadataSets, cm \in MetadataSets :
          threads = MetaTasks(dirs, dm, cm)
    /\ joinIdx = 0
    /\ files = MetaFiles(dirs, threads)
    /\ cout = {}
    /\ cerr = <<>>
    /\ exit = "running"
    /\ thrown = NoError

MetaNext ==
    \/ \E t \in 1..Len(threads) : SaveDepthMetadata(t)
    \/ \E t \in 1..Len(threads) : SaveColourMetadata(t)

MetaSpec == MetaInit /\ [][MetaNext]_vars

-----------------------------------------------------------------------------
(* Properties *)

Threads == 1..Len(threads)

DepthTasks == {t \in Threads : threads[t].fn = "save_frame_depth_data"}

ColourTasks == {t \in Threads : threads[t].fn = "save_frame_color_data"}

FilesOf(format) == {p \in DOMAIN files : files[p].format = format}

\* C1: whenever the process has exited, on any path, every dispatched task
\* has been joined.
C1_AllJoinedBeforeExit ==
    exit # "running" => \A t \in Threads : threads[t].joined

\* C2: an SDK error raised by stream start or by any frameset wait ends the
\* process with exit code 1 after the failed operation's name and arguments
\* were printed to the error stream; any other exception ends it with exit
\* code 1; exit code 0 only after the whole run completed.
C2_ErrorsExitWithCodeOne ==
    /\ thrown.type = "rs2::error" =>
          /\ exit = "EXIT_FAILURE"
          /\ \E k \in 1..Len(cerr) :
                /\ Len(cerr[k]) = 6
                /\ cerr[k][2] = thrown.failed_function
                /\ cerr[k][4] = thrown.failed_args
    /\ thrown.type = "std::exception" => exit = "EXIT_FAILURE"
    /\ exit = "EXIT_SUCCESS" =>
          /\ thrown = NoError
          /\ i >= num_frames
          /\ \A t \in Threads : threads[t].st = "done" /\ threads[t].joined

\* C3: with all four directories present and frame_count >= 0, at exit code 0
\* the raw files number frame_count less the depth frames that were not video
\* frames, the png files frame_count less the colour frames that were not
\* video frames, and every artifact has exactly one metadata file.
C3_ArtifactCounts ==
    (exit = "EXIT_SUCCESS" /\ dirs = AllDirs /\ num_frames >= 0) =>
        /\ Cardinality(FilesOf("raw")) =
              num_frames - Cardinality({t \in DepthTasks : ~threads[t].frame.video})
        /\ Cardinality(FilesOf("png")) =
              num_frames - Cardinality({t \in ColourTasks : ~threads[t].frame.video})
        /\ Cardinality(FilesOf("csv")) =
              Cardinality(FilesOf("raw")) + Cardinality(FilesOf("png"))
        /\ \A t \in Threads :
              IF threads[t].frame.video
              THEN /\ Len(threads[t].out) = 2
                   /\ threads[t].out[1] \in FilesOf("raw") \cup FilesOf("png")
                   /\ threads[t].out[2] \in FilesOf("csv")
              ELSE threads[t].out = <<>>
        /\ num_frames = 0 => DOMAIN files = {}

C3_Witness ==
    /\ exit = "EXIT_SUCCESS"
    /\ dirs = AllDirs
    /\ num_frames = 2
    /\ Cardinality({t \in DepthTasks : ~threads[t].frame.video}) = 1
    /\ Cardinality(FilesOf("raw")) = 1
    /\ Cardinality(FilesOf("png")) = 2
    /\ Cardinality(FilesOf("csv")) = 3

\* A depth task whose raw-file write failed: depth/ is missing and the
\* filtered frame is a video frame, so the write was attempted.
FailedDepthWrite(t) ==
    /\ t \in DepthTasks
    /\ DepthDir \notin dirs
    /\ threads[t].frame.video
    /\ threads[t].st # "ready"

ColourTasksUnaffected ==
    \A t \in ColourTasks :
        (threads[t].st = "done" /\ threads[t].frame.video) =>
            /\ ColourDir \in dirs =>
                  ColourPath(raspi_name, threads[t].frame.number) \in FilesOf("png")
            /\ ColourMetadataDir \in dirs =>
                  ColourMetadataPath(raspi_name, threads[t].frame.number) \in FilesOf("csv")

JoinWithoutError ==
    (joinIdx >= 1 /\ exit # "running") => (exit = "EXIT_SUCCESS" /\ thrown = NoError)

DecimalInteger(s) ==
    LET from == IF Len(s) >= 1 /\ s[1] \in {"-", "+"} THEN 2 ELSE 1
    IN  /\ Len(s) >= from
        /\ \A k \in from..Len(s) : IsDigit(s[k])

\* C5: with the frame count absent or malformed the run never ends with exit
\* code 0 and no frameset is captured for persistence.  (That it ends with
\* exit code 1 is left out, so that a violation does not rest on how reading
\* a missing argument ends the process.)
C5_MalformedCountIsError ==
    (Len(argv) = 0 \/ ~DecimalInteger(argv[1])) =>
        /\ exit # "EXIT_SUCCESS"
        /\ threads = <<>>

\* C6: the first 30 framesets are never persisted: while no more than 30 were
\* returned no task exists and no file is written, the k-th captured frameset
\* is the (30+k)-th returned, every file comes from a task, and a completed
\* run has asked for exactly 30 + frame_count framesets.
C6_WarmupDiscarded ==
    /\ waits <= 30 => (threads = <<>> /\ DOMAIN files = {})
    /\ \A t \in Threads : threads[t].frame.set = 30 + ((t + 1) \div 2)
    /\ \A t \in Threads : threads[t].frame.set > 30
    /\ \A p \in DOMAIN files : \E t \in Threads, k \in 1..2 :
          k <= Len(threads[t].out) /\ threads[t].out[k] = p
    /\ \A p \in FilesOf("raw") \cup FilesOf("png") : files[p].rows[1].set > 30
    /\ exit = "EXIT_SUCCESS" =>
          waits = 30 + (IF num_frames > 0 THEN num_frames ELSE 0)

C6_Witness ==
    /\ exit = "EXIT_SUCCESS"
    /\ num_frames = 2
    /\ waits = 32
    /\ Len(threads) = 4
    /\ threads[1].frame.set = 31
    /\ threads[4].frame.set = 32
    /\ Cardinality(DOMAIN files) = 8

\* C7: with no device present the process writes the notice to the error
\* stream and ends with exit code 1; it starts no stream, asks for no
\* frameset, dispatches no task and writes no file, whatever the arguments.
C7_NoDevice ==
    devices = 0 =>
        /\ ~started
        /\ waits = 0
        /\ threads = <<>>
        /\ DOMAIN files = {}
        /\ pc \in {"query", "exited"}
        /\ exit \in {"running", "EXIT_FAILURE"}
        /\ pc = "exited" =>
              /\ exit = "EXIT_FAILURE"
              /\ cerr = <<<<"No RealSense devices found!">>>>

C7_Witness ==
    /\ devices = 0
    /\ argv = <<>>
    /\ pc = "exited"
    /\ exit = "EXIT_FAILURE"
    /\ Len(cerr) = 1

\* The file writes of the run: <<t, k>> is the k-th file task t created.
Writes == {w \in Threads \X {1, 2} : w[2] <= Len(threads[w[1]].out)}

\* The name a task's k-th file must carry for the frame number it was given.
NameFor(t, k) ==
    LET n == ToString(threads[t].frame.number)
    IN  IF t \in DepthTasks
        THEN (IF k = 1 THEN "depth/" \o raspi_name \o "_depth_" \o n \o ".raw"
              ELSE "depth_metadata/" \o raspi_name \o "_depth_metadata_" \o n \o ".txt")
        ELSE (IF k = 1 THEN "colour/" \o raspi_name \o "_colour_" \o n \o ".png"
              ELSE "colour_metadata/" \o raspi_name \o "_colour_metadata_" \o n \o ".txt")

\* C8: under every interleaving no two files written in a run have the same
\* path; each name carries its frame's number, and the numbers of a stream
\* are strictly increasing in dispatch order.
C8_DistinctPaths ==
    /\ \A a \in Writes, b \in Writes :
          a # b => threads[a[1]].out[a[2]] # threads[b[1]].out[b[2]]
    /\ dirs = AllDirs =>
          \A w \in Writes : threads[w[1]].out[w[2]] = NameFor(w[1], w[2])
    /\ \A t1 \in Threads, t2 \in Threads :
          (t1 < t2 /\ threads[t1].fn = threads[t2].fn) =>
              threads[t1].frame.number < threads[t2].frame.number
    /\ Cardinality(DOMAIN files) = Cardinality(Writes)

C8_Witness ==
    /\ Len(threads) = 4
    /\ Cardinality(Writes) = 7
    /\ colourBase = 0
    /\ threads[3].st = "done" /\ threads[1].st = "saved"

\* The kind a data row of a metadata file names.
KindOf(name) == CHOOSE k \in 0..(Len(MetadataNames) - 1) : MetadataNames[k + 1] = name

\* C9: a metadata file is the two header rows, then exactly one row per kind
\* the frame supports, in the order of the enumeration, and nothing else.
C9_MetadataFile ==
    \A t \in Threads :
        (threads[t].st = "done" /\ Len(threads[t].out) >= 1
            /\ files[threads[t].out[Len(threads[t].out)]].format = "csv") =>
        LET frm  == threads[t].frame
            rows == files[threads[t].out[Len(threads[t].out)]].rows
            S    == DOMAIN frm.md
        IN  /\ Len(rows) = 2 + Cardinality(S)
            /\ rows[1] = <<"Stream", IF t \in DepthTasks THEN "Depth" ELSE "Color">>
            /\ rows[2] = <<"Metadata Attribute", "Value">>
            /\ {KindOf(rows[r][1]) : r \in 3..Len(rows)} = S
            /\ \A r \in 3..Len(rows) :
                  /\ rows[r][1] \in {MetadataNames[k + 1] : k \in S}
                  /\ rows[r][2] = ToString(frm.md[KindOf(rows[r][1])])
                  /\ r < Len(rows) => KindOf(rows[r][1]) < KindOf(rows[r + 1][1])

C9_Witness ==
    /\ Len(threads) = 2
    /\ threads[1].st = "done" /\ threads[2].st = "done"
    /\ DOMAIN threads[1].frame.md = {0, 2}
    /\ DOMAIN threads[2].frame.md = {}
    /\ Len(threads[1].out) = 2
    /\ Len(files[threads[1].out[2]].rows) = 4
    /\ Len(threads[2].out) = 2
    /\ Len(files[threads[2].out[2]].rows) = 2

\* C10: each capture pass adds exactly two tasks, the depth and the colour
\* task of the frameset just retrieved, and the next pass is enabled whatever
\* the earlier tasks are doing; no thread is joined before the capture loop
\* has ended; no frame is handed to two tasks.
C10_NoBackpressure ==
    /\ (pc = "capture" /\ exit = "running") => Len(threads) = 2 * i
    /\ \A t \in Threads :
          IF t % 2 = 1
          THEN /\ t \in DepthTasks
               /\ threads[t].frame.stream = "RS2_STREAM_DEPTH"
               /\ t + 1 \in ColourTasks
               /\ threads[t + 1].frame.stream = "RS2_STREAM_COLOR"
               /\ threads[t + 1].frame.set = threads[t].frame.set
          ELSE threads[t - 1].frame.set = threads[t].frame.set
    /\ (pc = "capture" /\ exit = "running" /\ i < num_frames) => ENABLED Capture
    /\ (\E t \in Threads : threads[t].joined) =>
          (pc \in {"join", "exited"} /\ i >= num_frames)
    /\ \A t1 \in Threads, t2 \in Threads :
          t1 # t2 =>
              <<threads[t1].frame.stream, threads[t1].frame.set>>
                  # <<threads[t2].frame.stream, threads[t2].frame.set>>

C10_Witness ==
    /\ pc = "join"
    /\ num_frames = 2
    /\ Len(threads) = 2 * num_frames
    /\ \A t \in Threads : threads[t].st = "ready" /\ ~threads[t].joined

====
